---- MODULE Spec2Model ----
(***************************************************************************)
(* Draft lifecycle, de-duplication and sync cursor of the personal         *)
(* email/Slack assistant.                                                  *)
(*                                                                         *)
(* Processes: the poll driver (EmailScanner.scan, one cycle at a time),    *)
(* the Slack Bolt listener threads (SlackMonitor handlers, handled         *)
(* concurrently), and the environment (mail arriving in the inbox, the     *)
(* process restarting).  A step of a process is one call that reads or     *)
(* writes the SQLite store or an external service; everything a handler    *)
(* does between two such calls is part of the step.                        *)
(***************************************************************************)
EXTENDS Integers, Sequences, FiniteSets, TLC

VARIABLES
    drafts,      \* table drafts: draft id -> row
    processed,   \* table processed_messages: set of rows
    cursor,      \* scan_state row 'gmail_history_id' (Null when absent)
    feedback,    \* table voice_feedback: draft ids with an edit_diff row
    clock,       \* datetime.utcnow() as a logical clock
    arrived,     \* Gmail: messages delivered to the inbox so far (= historyId)
    archived,    \* Gmail: email ids whose INBOX label was removed
    sends,       \* Gmail: the send_reply calls that returned, in order
    scan,        \* the poll driver's position and locals
    thr,         \* the listener threads' positions and locals
    ev,          \* the last step taken (what it called, and how it ended)
    fetched,     \* history: email ids some fetch of the scanner has returned
    classified,  \* history: message key -> number of classify calls that returned
    posted,      \* history: notifications posted (draft announcements, FYIs)
    log,         \* history: exceptions logged by the program, and exceptions
                 \* that left a handler ("raised")
    withCursor,  \* history: email ids delivered while a cursor was stored
    started,     \* handlers started so far (bounds the run)
    scans,       \* scan cycles started so far (bounds the run)
    restarts     \* process restarts so far (bounds the run)

vars == <<drafts, processed, cursor, feedback, clock, arrived, archived, sends,
          scan, thr, ev, fetched, classified, posted, log, withCursor,
          started, scans, restarts>>

(***************************************************************************)
(* Bounds of the model.                                                    *)
(***************************************************************************)
MaxEmails   == 2     \* emails that arrive in the inbox
MaxSlack    == 1     \* distinct Slack messages (ts values)
MaxThreads  == 2     \* listener threads that run handlers concurrently
MaxHandlers == 3     \* handler invocations in a run
MaxScans    == 2     \* scan cycles in a run
MaxRestarts == 1     \* process restarts in a run
MaxMarks    == 3     \* mark_processed calls made on the store alone

\* Python's None: for a string, for an integer (an id, a history id, a
\* timestamp), and for a row that a SELECT did not find
None == "none"
Null == 0 - 1
NoRow == [id |-> Null]

EmailIds == 1..MaxEmails
SlackTs  == 1..MaxSlack
Threads  == 1..MaxThreads

\* message ids as the store sees them: Gmail ids and Slack ts values are
\* strings of different shapes, so an id carries its shape
EmailKey(k) == <<"m", k>>
SlackKey(k) == <<"t", k>>
MsgKeys == {EmailKey(k) : k \in EmailIds} \cup {SlackKey(k) : k \in SlackTs}

\* the text of the generated draft, and what a user can type in the modal
\* (the input block is not optional, so a submitted value is never empty)
DraftText == "draft"
EditTexts == {"draft", "edit"}

\* a draft id that no row has (a stale button, another database)
UnknownId == 0 - 2

(***************************************************************************)
(* models.py                                                               *)
(***************************************************************************)
PENDING_REVIEW == "pending_review"
APPROVED == "approved"
REJECTED == "rejected"
SENT == "sent"
SKIPPED == "skipped"
EXPIRED == "expired"
DraftStatus == {PENDING_REVIEW, APPROVED, REJECTED, SENT, SKIPPED, EXPIRED}

EMAIL == "email"
SLACK == "slack"
DraftSource == {EMAIL, SLACK}

DRAFT_RESPONSE == "draft_response"
FYI_ONLY == "fyi_only"
ARCHIVE == "archive"
SKIP == "skip"
EmailAction == {DRAFT_RESPONSE, FYI_ONLY, ARCHIVE, SKIP}

(***************************************************************************)
(* drafts/store.py: DraftStore.  Each operator is one committed statement. *)
(***************************************************************************)
\* an id generator that repeats itself
uuid4_repeating(ds) == 1

\* uuid.uuid4(): an id no existing row has
uuid4(ds) == Cardinality(DOMAIN ds) + 1

\* INSERT INTO drafts ...: status pending_review, the columns not named NULL
create(ds, source, original_message_id, draft_text) ==
    [i \in DOMAIN ds \cup {uuid4(ds)} |->
        IF i \in DOMAIN ds THEN ds[i]
        ELSE [id |-> i,
              source |-> source,
              status |-> PENDING_REVIEW,
              original_message_id |-> original_message_id,
              draft_text |-> draft_text,
              edited_text |-> None,
              notified |-> FALSE,
              approved_at |-> Null,
              rejected_at |-> Null,
              sent_at |-> Null]]

\* _row_to_draft: the Draft built from a row; approved_at, rejected_at and
\* sent_at are not passed, so the object has their default None
row_to_draft(row) ==
    [row EXCEPT !.approved_at = Null, !.rejected_at = Null, !.sent_at = Null]

\* SELECT * FROM drafts WHERE id = ?
get(ds, draft_id) ==
    IF draft_id \in DOMAIN ds THEN row_to_draft(ds[draft_id]) ELSE NoRow

\* UPDATE drafts SET status = ?[, <status>_at = ?] WHERE id = ?
update_status(ds, draft_id, status, now) ==
    [i \in DOMAIN ds |->
        IF i # draft_id THEN ds[i]
        ELSE IF status = APPROVED
             THEN [ds[i] EXCEPT !.status = status, !.approved_at = now]
        ELSE IF status = REJECTED
             THEN [ds[i] EXCEPT !.status = status, !.rejected_at = now]
        ELSE IF status = SENT
             THEN [ds[i] EXCEPT !.status = status, !.sent_at = now]
        ELSE [ds[i] EXCEPT !.status = status]]

\* UPDATE drafts SET slack_notification_ts = ?, slack_notification_channel = ?
update_slack_notification(ds, draft_id) ==
    [i \in DOMAIN ds |->
        IF i = draft_id THEN [ds[i] EXCEPT !.notified = TRUE] ELSE ds[i]]

\* an edit that overwrites the generated text instead
update_draft_text(ds, draft_id, edited_text) ==
    [i \in DOMAIN ds |->
        IF i = draft_id THEN [ds[i] EXCEPT !.draft_text = edited_text] ELSE ds[i]]

\* UPDATE drafts SET edited_text = ? WHERE id = ?
update_edited_text(ds, draft_id, edited_text) ==
    [i \in DOMAIN ds |->
        IF i = draft_id THEN [ds[i] EXCEPT !.edited_text = edited_text] ELSE ds[i]]

\* Python truth of an optional string: None and "" are false
Truthy(s) == s # None /\ s # ""

\* get_final_text as it would be if the edit were ignored
get_final_text_unedited(draft) == draft.draft_text

\* draft.edited_text or draft.draft_text
get_final_text(draft) ==
    IF Truthy(draft.edited_text) THEN draft.edited_text ELSE draft.draft_text

\* a de-duplication query that never finds a row
is_processed_never(ps, message_id, source) == FALSE

\* SELECT 1 FROM processed_messages WHERE message_id = ? AND source = ?
is_processed(ps, message_id, source) ==
    \E r \in ps : r.message_id = message_id /\ r.source = source

\* the statement as INSERT OR REPLACE: the row of the message is rewritten
mark_processed_replacing(ps, message_id, source, classification_json, now) ==
    {r \in ps : r.message_id # message_id}
        \cup {[message_id |-> message_id, source |-> source, processed_at |-> now,
               classification_json |-> classification_json]}

\* INSERT OR IGNORE INTO processed_messages: message_id is the primary key,
\* so a row with the same message_id (whatever its source) makes it a no-op
mark_processed(ps, message_id, source, classification_json, now) ==
    IF \E r \in ps : r.message_id = message_id
    THEN ps
    ELSE ps \cup {[message_id |-> message_id, source |-> source, processed_at |-> now,
                   classification_json |-> classification_json]}

\* classification.model_dump_json() of a SlackClassification, by the one
\* field the handler branches on
slack_json(needs_response) == IF needs_response THEN "needs_response" ELSE "no_response"

(***************************************************************************)
(* voice/feedback.py                                                       *)
(***************************************************************************)
\* record_edit_diff: nothing when the texts are equal, else one more row
record_edit_diff(fb, draft_id, original_draft, edited_text) ==
    IF original_draft = edited_text THEN fb ELSE fb \cup {draft_id}

(***************************************************************************)
(* email/gmail_client.py, as the mailbox the client talks to.              *)
(* Message k is the k-th message delivered; its delivery is history        *)
(* record k, so the mailbox's historyId is the number delivered.           *)
(***************************************************************************)
\* users().getProfile()["historyId"]
get_history_id(n) == n

\* history().list(startHistoryId, messageAdded, INBOX): the messages added
\* after the given id that carry the INBOX label
get_new_messages_since(n, arch, history_id) ==
    {k \in EmailIds : history_id < k /\ k <= n /\ k \notin arch}

\* messages().list(INBOX, is:unread): the program never marks mail read
get_unread_messages(n, arch) ==
    {k \in EmailIds : k <= n /\ k \notin arch}

\* fallback records that the cycle's fetch was the unread scan taken after
\* the mailbox rejected the cursor
idleScan == [pc |-> "idle", history_id |-> Null, emails |-> {},
             new_history_id |-> Null, email |-> Null, action |-> None,
             draft_id |-> Null, fallback |-> FALSE]

idleThread == [pc |-> "idle", handler |-> None, draft_id |-> Null, draft |-> NoRow,
               final_text |-> None, ts |-> Null, needs_response |-> FALSE]

noEvent == [op |-> "init", who |-> Null, target |-> None, ok |-> TRUE]

Event(op, who, target, ok) == [op |-> op, who |-> who, target |-> target, ok |-> ok]

\* a draft id as the subject of a log entry
DraftKey(id) == <<"d", id>>

\* logger.exception / logger.error / logger.warning in the program
Logged(op, key) == [kind |-> "logged", op |-> op, key |-> key]

\* an exception that nothing in the handler catches
Raised(op, key) == [kind |-> "raised", op |-> op, key |-> key]

\* the state after lifespan() has built the components on an empty database
Init ==
    /\ drafts = <<>>
    /\ processed = {}
    /\ cursor = Null
    /\ feedback = {}
    /\ clock = 1
    /\ arrived = 0
    /\ archived = {}
    /\ sends = <<>>
    /\ scan = idleScan
    /\ thr = [t \in Threads |-> idleThread]
    /\ ev = noEvent
    /\ fetched = {}
    /\ classified = [k \in MsgKeys |-> 0]
    /\ posted = {}
    /\ log = {}
    /\ withCursor = {}
    /\ started = 0
    /\ scans = 0
    /\ restarts = 0

(***************************************************************************)
(* The environment.                                                        *)
(***************************************************************************)
\* a message is delivered to the inbox
Deliver ==
    /\ arrived < MaxEmails
    /\ arrived' = arrived + 1
    /\ ev' = Event("deliver", Null, arrived + 1, TRUE)
    /\ withCursor' = IF cursor # Null THEN withCursor \cup {arrived + 1} ELSE withCursor
    /\ UNCHANGED <<drafts, processed, cursor, feedback, clock, archived, sends,
                   scan, thr, fetched, classified, posted, started, scans, restarts,
                   log>>

\* the process dies and is started again on the same database file: every
\* running cycle and handler is gone, the store and the mailbox stay
Restart ==
    /\ restarts < MaxRestarts
    /\ scan.pc # "idle" \/ \E t \in Threads : thr[t].pc # "idle"
    /\ restarts' = restarts + 1
    /\ scan' = idleScan
    /\ thr' = [t \in Threads |-> idleThread]
    /\ ev' = Event("restart", Null, None, TRUE)
    /\ UNCHANGED <<drafts, processed, cursor, feedback, clock, arrived, archived,
                   sends, fetched, classified, posted, started, scans,
                   log, withCursor>>

(***************************************************************************)
(* email/scanner.py: EmailScanner.scan, one cycle.                         *)
(***************************************************************************)
\* where the for loop of scan() goes after one email: the next one, or the end
NextEmail(s) ==
    IF s.emails = {} THEN idleScan
    ELSE [s EXCEPT !.pc = "loop", !.email = Null, !.action = None, !.draft_id = Null]

\* the scheduler fires (no tick overlaps a running cycle): read the cursor
ScanStart ==
    /\ scan.pc = "idle"
    /\ scans < MaxScans
    /\ scans' = scans + 1
    /\ scan' = [scan EXCEPT !.pc = "fetch", !.history_id = cursor]
    /\ ev' = Event("_get_stored_history_id", Null, cursor, TRUE)
    /\ UNCHANGED <<drafts, processed, cursor, feedback, clock, arrived, archived,
                   sends, thr, fetched, classified, posted, started, restarts,
                   log, withCursor>>

\* get_new_messages_since(history_id) with a cursor, get_unread_messages without
ScanFetchOk ==
    /\ scan.pc = "fetch"
    /\ LET emails == IF scan.history_id # Null
                     THEN get_new_messages_since(arrived, archived, scan.history_id)
                     ELSE get_unread_messages(arrived, archived)
       IN /\ scan' = [scan EXCEPT !.pc = "profile", !.emails = emails]
          /\ fetched' = fetched \cup emails
          /\ ev' = Event("fetch", Null, emails, TRUE)
    /\ UNCHANGED <<drafts, processed, cursor, feedback, clock, arrived, archived,
                   sends, thr, classified, posted, started, scans, restarts,
                   log, withCursor>>

\* get_new_messages_since as it would be if it logged the expiry and raised
\* it again: the outer except of scan() ends the cycle
ScanFetchExpiredRaises ==
    /\ scan.pc = "fetch"
    /\ scan.history_id # Null
    /\ scan' = idleScan
    /\ ev' = Event("fetch", Null, None, FALSE)
    /\ log' = log \cup {Logged("history_expired", <<"h", scan.history_id>>),
                        Logged("scan", <<"scan", scan.pc>>)}
    /\ UNCHANGED <<drafts, processed, cursor, feedback, clock, arrived, archived,
                   sends, thr, fetched, classified, posted, started, scans, restarts,
                   withCursor>>

\* the mailbox answers 404 for the history id: fall back to the unread scan
ScanFetchExpired ==
    /\ scan.pc = "fetch"
    /\ scan.history_id # Null
    /\ LET emails == get_unread_messages(arrived, archived)
       IN /\ scan' = [scan EXCEPT !.pc = "profile", !.emails = emails,
                                   !.fallback = TRUE]
          /\ fetched' = fetched \cup emails
          /\ ev' = Event("fetch_fallback", Null, emails, TRUE)
    /\ log' = log \cup {Logged("history_expired", <<"h", scan.history_id>>)}
    /\ UNCHANGED <<drafts, processed, cursor, feedback, clock, arrived, archived,
                   sends, thr, classified, posted, started, scans, restarts, withCursor>>

\* the scheduler fires and the cursor read raises (the SELECT on scan_state):
\* the outer except logs "Email scan failed" and the cycle is over
ScanReadFails ==
    /\ scan.pc = "idle"
    /\ scans < MaxScans
    /\ scans' = scans + 1
    /\ ev' = Event("idle", Null, None, FALSE)
    /\ log' = log \cup {Logged("scan", <<"scan", scan.pc>>)}
    /\ UNCHANGED <<drafts, processed, cursor, feedback, clock, arrived, archived,
                   sends, scan, thr, fetched, classified, posted, started, restarts,
                   withCursor>>

\* scan() as it would be without its outer except: the failure leaves the job
ScanFailsRaising ==
    /\ scan.pc \in {"fetch", "profile", "store", "loop"}
    /\ scan' = idleScan
    /\ ev' = Event(scan.pc, Null, None, FALSE)
    /\ log' = log \cup {Raised("scan", <<"scan", scan.pc>>)}
    /\ UNCHANGED <<drafts, processed, cursor, feedback, clock, arrived, archived,
                   sends, thr, fetched, classified, posted, started, scans, restarts,
                   withCursor>>

\* any other failure of the fetch, of get_history_id, of _store_history_id,
\* or of the is_processed query of the loop (which is outside the inner
\* try): the outer except logs "Email scan failed" and the cycle is over
ScanFails ==
    /\ scan.pc \in {"fetch", "profile", "store", "loop"}
    /\ scan' = idleScan
    /\ ev' = Event(scan.pc, Null, None, FALSE)
    /\ log' = log \cup {Logged("scan", <<"scan", scan.pc>>)}
    /\ UNCHANGED <<drafts, processed, cursor, feedback, clock, arrived, archived,
                   sends, thr, fetched, classified, posted, started, scans, restarts,
                   withCursor>>

\* new_history_id = self.gmail.get_history_id()
ScanProfile ==
    /\ scan.pc = "profile"
    /\ scan' = [scan EXCEPT !.pc = "store", !.new_history_id = get_history_id(arrived)]
    /\ ev' = Event("get_history_id", Null, get_history_id(arrived), TRUE)
    /\ UNCHANGED <<drafts, processed, cursor, feedback, clock, arrived, archived,
                   sends, thr, fetched, classified, posted, started, scans, restarts,
                   log, withCursor>>

\* scan() as it would be with the empty-batch return before the store
ScanStoreUnlessEmpty ==
    /\ scan.pc = "store"
    /\ cursor' = IF scan.emails = {} THEN cursor ELSE scan.new_history_id
    /\ scan' = NextEmail(scan)
    /\ ev' = Event("_store_history_id", Null, scan.new_history_id, TRUE)
    /\ UNCHANGED <<drafts, processed, feedback, clock, arrived, archived, sends,
                   thr, fetched, classified, posted, started, scans, restarts,
                   log, withCursor>>

\* self._store_history_id(new_history_id); if not emails: return
ScanStore ==
    /\ scan.pc = "store"
    /\ cursor' = scan.new_history_id
    /\ scan' = NextEmail(scan)
    /\ ev' = Event("_store_history_id", Null, scan.new_history_id, TRUE)
    /\ UNCHANGED <<drafts, processed, feedback, clock, arrived, archived, sends,
                   thr, fetched, classified, posted, started, scans, restarts,
                   log, withCursor>>

\* for email in emails: if self.drafts.is_processed(...): continue
ScanNext ==
    /\ scan.pc = "loop"
    /\ \E e \in scan.emails :
         LET rest == [scan EXCEPT !.emails = scan.emails \ {e}]
             seen == is_processed(processed, EmailKey(e), EMAIL)
         IN /\ scan' = IF seen THEN NextEmail(rest)
                       ELSE [rest EXCEPT !.pc = "classify", !.email = e]
            /\ ev' = Event("is_processed", Null, EmailKey(e), seen)
    /\ UNCHANGED <<drafts, processed, cursor, feedback, clock, arrived, archived,
                   sends, thr, fetched, classified, posted, started, scans, restarts,
                   log, withCursor>>

\* _process_email as it would be with the draft branch taken before the
\* message is marked
ScanClassifyThenDraft ==
    /\ scan.pc = "classify"
    /\ \E a \in EmailAction :
         /\ scan' = [scan EXCEPT !.pc = IF a = DRAFT_RESPONSE THEN "draft" ELSE "mark",
                                 !.action = a]
         /\ ev' = Event("classify", Null, EmailKey(scan.email), TRUE)
    /\ classified' = [classified EXCEPT ![EmailKey(scan.email)] = @ + 1]
    /\ UNCHANGED <<drafts, processed, cursor, feedback, clock, arrived, archived,
                   sends, thr, fetched, posted, started, scans, restarts,
                   log, withCursor>>

\* classification = self.classifier.classify(email): the completion parses to
\* one of the four actions
ScanClassify ==
    /\ scan.pc = "classify"
    /\ \E a \in EmailAction :
         /\ scan' = [scan EXCEPT !.pc = "mark", !.action = a]
         /\ ev' = Event("classify", Null, EmailKey(scan.email), TRUE)
    /\ classified' = [classified EXCEPT ![EmailKey(scan.email)] = @ + 1]
    /\ UNCHANGED <<drafts, processed, cursor, feedback, clock, arrived, archived,
                   sends, thr, fetched, posted, started, scans, restarts,
                   log, withCursor>>

\* the completion does not parse: classify returns the fyi_only default
ScanClassifyUnparseable ==
    /\ scan.pc = "classify"
    /\ scan' = [scan EXCEPT !.pc = "mark", !.action = FYI_ONLY]
    /\ ev' = Event("classify_default", Null, EmailKey(scan.email), TRUE)
    /\ classified' = [classified EXCEPT ![EmailKey(scan.email)] = @ + 1]
    /\ log' = log \cup {Logged("parse", EmailKey(scan.email))}
    /\ UNCHANGED <<drafts, processed, cursor, feedback, clock, arrived, archived,
                   sends, thr, fetched, posted, started, scans, restarts, withCursor>>

\* a call of _process_email raises (the completion request in classify, the
\* mark_processed insert, the draft generation, a notification post): scan()
\* logs it and goes on
ScanEmailFails ==
    /\ scan.pc \in {"classify", "mark", "draft", "notify", "fyi"}
    /\ scan' = NextEmail(scan)
    /\ ev' = Event(scan.pc, Null, EmailKey(scan.email), FALSE)
    /\ log' = log \cup {Logged("_process_email", EmailKey(scan.email))}
    /\ UNCHANGED <<drafts, processed, cursor, feedback, clock, arrived, archived,
                   sends, thr, fetched, classified, posted, started, scans, restarts,
                   withCursor>>

\* self.drafts.mark_processed(email.message_id, "email", ...), then the branch
ScanMark ==
    /\ scan.pc = "mark"
    /\ processed' = mark_processed(processed, EmailKey(scan.email), EMAIL,
                                   scan.action, clock)
    /\ scan' = IF scan.action = DRAFT_RESPONSE THEN [scan EXCEPT !.pc = "draft"]
               ELSE IF scan.action = FYI_ONLY THEN [scan EXCEPT !.pc = "fyi"]
               ELSE IF scan.action = ARCHIVE THEN [scan EXCEPT !.pc = "auto_archive"]
               ELSE NextEmail(scan)
    /\ clock' = clock + 1
    /\ ev' = Event("mark_processed", Null, EmailKey(scan.email), TRUE)
    /\ UNCHANGED <<drafts, cursor, feedback, arrived, archived, sends, thr,
                   fetched, classified, posted, started, scans, restarts,
                   log, withCursor>>

\* generate_email_draft returns and self.drafts.create(...) stores the draft
ScanDraft ==
    /\ scan.pc = "draft"
    /\ drafts' = create(drafts, EMAIL, EmailKey(scan.email), DraftText)
    /\ scan' = [scan EXCEPT !.pc = "notify", !.draft_id = uuid4(drafts)]
    /\ ev' = Event("create", Null, uuid4(drafts), TRUE)
    /\ UNCHANGED <<processed, cursor, feedback, clock, arrived, archived, sends,
                   thr, fetched, classified, posted, started, scans, restarts,
                   log, withCursor>>

\* send_email_draft_notification posts the announcement with its buttons and
\* update_slack_notification stores its handle
ScanNotify ==
    /\ scan.pc = "notify"
    /\ posted' = posted \cup {<<"draft", scan.draft_id>>}
    /\ drafts' = update_slack_notification(drafts, scan.draft_id)
    /\ scan' = NextEmail(scan)
    /\ ev' = Event("send_email_draft_notification", Null, scan.draft_id, TRUE)
    /\ UNCHANGED <<processed, cursor, feedback, clock, arrived, archived, sends,
                   thr, fetched, classified, started, scans, restarts,
                   log, withCursor>>

\* self.notifier.send_fyi_notification(email, classification)
ScanFyi ==
    /\ scan.pc = "fyi"
    /\ posted' = posted \cup {<<"fyi", EmailKey(scan.email)>>}
    /\ scan' = NextEmail(scan)
    /\ ev' = Event("send_fyi_notification", Null, EmailKey(scan.email), TRUE)
    /\ UNCHANGED <<drafts, processed, cursor, feedback, clock, arrived, archived,
                   sends, thr, fetched, classified, started, scans, restarts,
                   log, withCursor>>

\* self.gmail.archive(email.message_id) in its own try: a failure is logged
ScanArchive ==
    /\ scan.pc = "auto_archive"
    /\ \E ok \in BOOLEAN :
         /\ archived' = IF ok THEN archived \cup {scan.email} ELSE archived
         /\ ev' = Event("auto_archive", Null, EmailKey(scan.email), ok)
         /\ log' = IF ok THEN log
                   ELSE log \cup {Logged("auto_archive", EmailKey(scan.email))}
    /\ scan' = NextEmail(scan)
    /\ UNCHANGED <<drafts, processed, cursor, feedback, clock, arrived, sends,
                   thr, fetched, classified, posted, started, scans, restarts,
                   withCursor>>

Scanner ==
    \/ ScanStart \/ ScanReadFails \/ ScanFetchOk \/ ScanFetchExpired \/ ScanFails \/ ScanProfile
    \/ ScanStore \/ ScanNext \/ ScanClassify \/ ScanClassifyUnparseable
    \/ ScanEmailFails \/ ScanMark \/ ScanDraft \/ ScanNotify \/ ScanFyi
    \/ ScanArchive

(***************************************************************************)
(* slack_monitor/listener.py: SlackMonitor, the handlers Bolt runs on its  *)
(* listener threads.                                                       *)
(***************************************************************************)
Idle(t) == thr[t].pc = "idle" /\ started < MaxHandlers

\* _handle_message_event for a message that passes the bot/own/channel
\* filters: if self.drafts.is_processed(message_ts, "slack"): return
MsgStart(t, k) ==
    /\ Idle(t)
    /\ started' = started + 1
    /\ LET seen == is_processed(processed, SlackKey(k), SLACK)
       IN /\ thr' = [thr EXCEPT ![t] = IF seen THEN idleThread
                         ELSE [idleThread EXCEPT !.pc = "m_classify",
                                                 !.handler = "message", !.ts = k]]
          /\ ev' = Event("is_processed", t, SlackKey(k), seen)
    /\ UNCHANGED <<drafts, processed, cursor, feedback, clock, arrived, archived,
                   sends, scan, fetched, classified, posted, scans, restarts,
                   log, withCursor>>

\* classification = self.classifier.classify(message, thread_context)
MsgClassify(t) ==
    /\ thr[t].pc = "m_classify"
    /\ \E n \in BOOLEAN :
         thr' = [thr EXCEPT ![t] = [@ EXCEPT !.pc = "m_mark", !.needs_response = n]]
    /\ classified' = [classified EXCEPT ![SlackKey(thr[t].ts)] = @ + 1]
    /\ ev' = Event("classify", t, SlackKey(thr[t].ts), TRUE)
    /\ UNCHANGED <<drafts, processed, cursor, feedback, clock, arrived, archived,
                   sends, scan, fetched, posted, started, scans, restarts,
                   log, withCursor>>

\* the completion does not parse: the default has needs_response=False
MsgClassifyUnparseable(t) ==
    /\ thr[t].pc = "m_classify"
    /\ thr' = [thr EXCEPT ![t] = [@ EXCEPT !.pc = "m_mark", !.needs_response = FALSE]]
    /\ classified' = [classified EXCEPT ![SlackKey(thr[t].ts)] = @ + 1]
    /\ ev' = Event("classify_default", t, SlackKey(thr[t].ts), TRUE)
    /\ log' = log \cup {Logged("parse", SlackKey(thr[t].ts))}
    /\ UNCHANGED <<drafts, processed, cursor, feedback, clock, arrived, archived,
                   sends, scan, fetched, posted, started, scans, restarts, withCursor>>

\* the completion request of classify or generate_slack_draft, or the
\* ephemeral post, raises: nothing in the handler catches it
MsgFails(t) ==
    /\ thr[t].pc \in {"m_classify", "m_post"}
    /\ thr' = [thr EXCEPT ![t] = idleThread]
    /\ ev' = Event("raised", t, SlackKey(thr[t].ts), FALSE)
    /\ log' = log \cup {Raised("_handle_message_event", SlackKey(thr[t].ts))}
    /\ UNCHANGED <<drafts, processed, cursor, feedback, clock, arrived, archived,
                   sends, scan, fetched, classified, posted, started, scans, restarts, withCursor>>

\* self.drafts.mark_processed(message_ts, "slack", ...);
\* if not classification.needs_response: return
MsgMark(t) ==
    /\ thr[t].pc = "m_mark"
    /\ processed' = mark_processed(processed, SlackKey(thr[t].ts), SLACK,
                                   slack_json(thr[t].needs_response), clock)
    /\ clock' = clock + 1
    /\ thr' = [thr EXCEPT ![t] = IF thr[t].needs_response
                                 THEN [@ EXCEPT !.pc = "m_post"] ELSE idleThread]
    /\ ev' = Event("mark_processed", t, SlackKey(thr[t].ts), TRUE)
    /\ UNCHANGED <<drafts, cursor, feedback, arrived, archived, sends, scan,
                   fetched, classified, posted, started, scans, restarts,
                   log, withCursor>>

\* generate_slack_draft returns and send_ephemeral_draft posts the draft text
MsgPost(t) ==
    /\ thr[t].pc = "m_post"
    /\ posted' = posted \cup {<<"ephemeral", SlackKey(thr[t].ts)>>}
    /\ thr' = [thr EXCEPT ![t] = [@ EXCEPT !.pc = "m_create"]]
    /\ ev' = Event("send_ephemeral_draft", t, SlackKey(thr[t].ts), TRUE)
    /\ UNCHANGED <<drafts, processed, cursor, feedback, clock, arrived, archived,
                   sends, scan, fetched, classified, started, scans, restarts,
                   log, withCursor>>

\* self.drafts.create(source=DraftSource.SLACK, ...)
MsgCreate(t) ==
    /\ thr[t].pc = "m_create"
    /\ drafts' = create(drafts, SLACK, SlackKey(thr[t].ts), DraftText)
    /\ thr' = [thr EXCEPT ![t] = idleThread]
    /\ ev' = Event("create", t, uuid4(drafts), TRUE)
    /\ UNCHANGED <<processed, cursor, feedback, clock, arrived, archived, sends,
                   scan, fetched, classified, posted, started, scans, restarts,
                   log, withCursor>>

\* _handle_approve as it would be without the not-found return: reading a
\* field of None raises
ApproveStartUnchecked(t, id) ==
    /\ Idle(t)
    /\ started' = started + 1
    /\ LET draft == get(drafts, id)
       IN /\ thr' = [thr EXCEPT ![t] =
                  IF draft = NoRow THEN idleThread
                  ELSE [idleThread EXCEPT
                          !.pc = IF draft.source = EMAIL THEN "a_send" ELSE "a_update",
                          !.handler = "approve",
                          !.draft_id = id, !.draft = draft,
                          !.final_text = get_final_text(draft)]]
          /\ ev' = Event("approve_get", t, id, draft # NoRow)
          /\ log' = IF draft = NoRow THEN log \cup {Raised("_handle_approve", DraftKey(id))}
                    ELSE log
    /\ UNCHANGED <<drafts, processed, cursor, feedback, clock, arrived, archived,
                   sends, scan, fetched, classified, posted, scans, restarts,
                   withCursor>>

\* _handle_approve: draft = self.drafts.get(draft_id); not found: log, return;
\* final_text = self.drafts.get_final_text(draft); the branch on the source
ApproveStart(t, id) ==
    /\ Idle(t)
    /\ started' = started + 1
    /\ LET draft == get(drafts, id)
       IN /\ thr' = [thr EXCEPT ![t] =
                  IF draft = NoRow THEN idleThread
                  ELSE [idleThread EXCEPT
                          !.pc = IF draft.source = EMAIL THEN "a_send" ELSE "a_update",
                          !.handler = "approve",
                          !.draft_id = id, !.draft = draft,
                          !.final_text = get_final_text(draft)]]
          /\ ev' = Event("approve_get", t, id, draft # NoRow)
          /\ log' = IF draft = NoRow THEN log \cup {Logged("not_found", DraftKey(id))}
                    ELSE log
    /\ UNCHANGED <<drafts, processed, cursor, feedback, clock, arrived, archived,
                   sends, scan, fetched, classified, posted, scans, restarts,
                   withCursor>>

\* self.gmail.send_reply(..., body=final_text, ...) returns
ApproveSendOk(t) ==
    /\ thr[t].pc = "a_send"
    /\ sends' = Append(sends, [draft_id |-> thr[t].draft_id, body |-> thr[t].final_text,
                             read |-> thr[t].draft])
    /\ thr' = [thr EXCEPT ![t] = [@ EXCEPT !.pc = "a_archive"]]
    /\ ev' = Event("send_reply", t, thr[t].draft_id, TRUE)
    /\ UNCHANGED <<drafts, processed, cursor, feedback, clock, arrived, archived,
                   scan, fetched, classified, posted, started, scans, restarts,
                   log, withCursor>>

\* the except clause as it would be without its return: the failure is
\* logged and the handler goes on to update_status
ApproveSendFailsNoReturn(t) ==
    /\ thr[t].pc = "a_send"
    /\ thr' = [thr EXCEPT ![t] = [@ EXCEPT !.pc = "a_update"]]
    /\ ev' = Event("send_reply", t, thr[t].draft_id, FALSE)
    /\ log' = log \cup {Logged("send_reply", DraftKey(thr[t].draft_id))}
    /\ UNCHANGED <<drafts, processed, cursor, feedback, clock, arrived, archived,
                   sends, scan, fetched, classified, posted, started, scans, restarts,
                   withCursor>>

\* send_reply raises: except Exception: logger.exception(...); return
ApproveSendFails(t) ==
    /\ thr[t].pc = "a_send"
    /\ thr' = [thr EXCEPT ![t] = idleThread]
    /\ ev' = Event("send_reply", t, thr[t].draft_id, FALSE)
    /\ log' = log \cup {Logged("send_reply", DraftKey(thr[t].draft_id))}
    /\ UNCHANGED <<drafts, processed, cursor, feedback, clock, arrived, archived,
                   sends, scan, fetched, classified, posted, started, scans, restarts, withCursor>>

\* self.gmail.archive(draft.original_message_id) returns
ApproveArchiveOk(t) ==
    /\ thr[t].pc = "a_archive"
    /\ archived' = archived \cup {thr[t].draft.original_message_id[2]}
    /\ thr' = [thr EXCEPT ![t] = [@ EXCEPT !.pc = "a_update"]]
    /\ ev' = Event("archive", t, thr[t].draft_id, TRUE)
    /\ UNCHANGED <<drafts, processed, cursor, feedback, clock, arrived, sends,
                   scan, fetched, classified, posted, started, scans, restarts,
                   log, withCursor>>

\* archive raises inside the same try: the same except logs and returns
ApproveArchiveFails(t) ==
    /\ thr[t].pc = "a_archive"
    /\ thr' = [thr EXCEPT ![t] = idleThread]
    /\ ev' = Event("archive", t, thr[t].draft_id, FALSE)
    /\ log' = log \cup {Logged("archive", DraftKey(thr[t].draft_id))}
    /\ UNCHANGED <<drafts, processed, cursor, feedback, clock, arrived, archived,
                   sends, scan, fetched, classified, posted, started, scans, restarts, withCursor>>

\* _handle_approve as it would be if it stored the status approved
ApproveUpdateApproved(t) ==
    /\ thr[t].pc = "a_update"
    /\ drafts' = update_status(drafts, thr[t].draft_id, APPROVED, clock)
    /\ clock' = clock + 1
    /\ feedback' = IF Truthy(thr[t].draft.edited_text)
                   THEN record_edit_diff(feedback, thr[t].draft_id,
                                         thr[t].draft.draft_text, thr[t].draft.edited_text)
                   ELSE feedback
    /\ thr' = [thr EXCEPT ![t] = [@ EXCEPT !.pc = "refresh"]]
    /\ ev' = Event("update_status", t, thr[t].draft_id, TRUE)
    /\ UNCHANGED <<processed, cursor, arrived, archived, sends, scan, fetched,
                   classified, posted, started, scans, restarts,
                   log, withCursor>>

\* self.drafts.update_status(draft_id, DraftStatus.SENT);
\* if draft.edited_text: self.feedback.record_edit_diff(...)
ApproveUpdate(t) ==
    /\ thr[t].pc = "a_update"
    /\ drafts' = update_status(drafts, thr[t].draft_id, SENT, clock)
    /\ clock' = clock + 1
    /\ feedback' = IF Truthy(thr[t].draft.edited_text)
                   THEN record_edit_diff(feedback, thr[t].draft_id,
                                         thr[t].draft.draft_text, thr[t].draft.edited_text)
                   ELSE feedback
    /\ thr' = [thr EXCEPT ![t] = [@ EXCEPT !.pc = "refresh"]]
    /\ ev' = Event("update_status", t, thr[t].draft_id, TRUE)
    /\ UNCHANGED <<processed, cursor, arrived, archived, sends, scan, fetched,
                   classified, posted, started, scans, restarts,
                   log, withCursor>>

\* _handle_reject: self.drafts.update_status(draft_id, DraftStatus.REJECTED)
RejectStart(t, id) ==
    /\ Idle(t)
    /\ started' = started + 1
    /\ drafts' = update_status(drafts, id, REJECTED, clock)
    /\ clock' = clock + 1
    /\ thr' = [thr EXCEPT ![t] = [idleThread EXCEPT !.pc = "refresh",
                                    !.handler = "reject", !.draft_id = id]]
    /\ ev' = Event("reject", t, id, TRUE)
    /\ UNCHANGED <<processed, cursor, feedback, arrived, archived, sends, scan,
                   fetched, classified, posted, scans, restarts,
                   log, withCursor>>

\* _handle_skip: self.drafts.update_status(draft_id, DraftStatus.SKIPPED)
SkipStart(t, id) ==
    /\ Idle(t)
    /\ started' = started + 1
    /\ drafts' = update_status(drafts, id, SKIPPED, clock)
    /\ clock' = clock + 1
    /\ thr' = [thr EXCEPT ![t] = [idleThread EXCEPT !.pc = "refresh",
                                    !.handler = "skip", !.draft_id = id]]
    /\ ev' = Event("skip", t, id, TRUE)
    /\ UNCHANGED <<processed, cursor, feedback, arrived, archived, sends, scan,
                   fetched, classified, posted, scans, restarts,
                   log, withCursor>>

\* _handle_edit_submit: self.drafts.update_edited_text(draft_id, edited_text)
EditSubmitStart(t, id, text) ==
    /\ Idle(t)
    /\ started' = started + 1
    /\ drafts' = update_edited_text(drafts, id, text)
    /\ thr' = [thr EXCEPT ![t] = [idleThread EXCEPT !.pc = "refresh",
                                    !.handler = "edit_submit", !.draft_id = id]]
    /\ ev' = Event("edit_submit", t, id, TRUE)
    /\ UNCHANGED <<processed, cursor, feedback, clock, arrived, archived, sends,
                   scan, fetched, classified, posted, scans, restarts,
                   log, withCursor>>

\* the notification update as it would be without the try of
\* update_draft_status: a rejected update leaves the handler as an exception
RefreshRaising(t) ==
    /\ thr[t].pc = "refresh"
    /\ LET draft == get(drafts, thr[t].draft_id)
       IN \E ok \in BOOLEAN :
            /\ draft = NoRow \/ ~draft.notified => ok
            /\ ev' = Event("update_notification", t, thr[t].draft_id, ok)
            /\ log' = IF ok THEN log
                      ELSE log \cup {Raised("chat_update", DraftKey(thr[t].draft_id))}
    /\ thr' = [thr EXCEPT ![t] = idleThread]
    /\ UNCHANGED <<drafts, processed, cursor, feedback, clock, arrived, archived,
                   sends, scan, fetched, classified, posted, started, scans, restarts,
                   withCursor>>

\* the end of the four handlers: draft = self.drafts.get(draft_id), and when
\* it has a notification the notification is updated; a failure of the
\* update is caught and logged (the ok of the step)
Refresh(t) ==
    /\ thr[t].pc = "refresh"
    /\ LET draft == get(drafts, thr[t].draft_id)
       IN \E ok \in BOOLEAN :
            /\ draft = NoRow \/ ~draft.notified => ok
            /\ ev' = Event("update_notification", t, thr[t].draft_id, ok)
            /\ log' = IF ok THEN log
                      ELSE log \cup {Logged("chat_update", DraftKey(thr[t].draft_id))}
    /\ thr' = [thr EXCEPT ![t] = idleThread]
    /\ UNCHANGED <<drafts, processed, cursor, feedback, clock, arrived, archived,
                   sends, scan, fetched, classified, posted, started, scans, restarts,
                   withCursor>>

\* _handle_edit: draft = self.drafts.get(draft_id); the modal opens with
\* draft.edited_text or draft.draft_text; nothing is written
EditOpen(t, id) ==
    /\ Idle(t)
    /\ started' = started + 1
    /\ LET draft == get(drafts, id)
       IN ev' = Event("views_open", t, id, draft # NoRow)
    /\ UNCHANGED <<drafts, processed, cursor, feedback, clock, arrived, archived,
                   sends, scan, thr, fetched, classified, posted, scans, restarts,
                   log, withCursor>>

\* the draft ids an action can carry: a button's value, or an id of no row
ActionIds == DOMAIN drafts \cup {UnknownId}

\* the message events on the listener threads
Chat ==
    \E t \in Threads :
        \/ \E k \in SlackTs : MsgStart(t, k)
        \/ MsgClassify(t) \/ MsgClassifyUnparseable(t) \/ MsgFails(t)
        \/ MsgMark(t) \/ MsgPost(t) \/ MsgCreate(t)

\* the interactive actions on the listener threads
Actions ==
    \E t \in Threads :
        \/ \E id \in ActionIds : ApproveStart(t, id)
        \/ ApproveSendOk(t) \/ ApproveSendFails(t)
        \/ ApproveArchiveOk(t) \/ ApproveArchiveFails(t) \/ ApproveUpdate(t)
        \/ \E id \in ActionIds : RejectStart(t, id)
        \/ \E id \in ActionIds : SkipStart(t, id)
        \/ \E id \in ActionIds : \E text \in EditTexts : EditSubmitStart(t, id, text)
        \/ \E id \in ActionIds : EditOpen(t, id)
        \/ Refresh(t)

(***************************************************************************)
(* The whole program.                                                      *)
(***************************************************************************)
Next == Deliver \/ Restart \/ Scanner \/ Chat \/ Actions

Spec == Init /\ [][Next]_vars

(***************************************************************************)
(* The poll driver alone, with the mailbox and restarts: the sync cursor   *)
(* and the mail path's de-duplication.                                     *)
(***************************************************************************)
NextScan == Deliver \/ Restart \/ Scanner

SpecScan == Init /\ [][NextScan]_vars

(***************************************************************************)
(* The message events alone, with restarts: the chat path's                *)
(* de-duplication.                                                         *)
(***************************************************************************)
NextChat == Restart \/ Chat

SpecChat == Init /\ [][NextChat]_vars

(***************************************************************************)
(* The interactive actions, from the states in which the program has       *)
(* drafts to act on: after a scan cycle has drafted and announced a reply  *)
(* to email 1 (the steps Deliver, ScanStart, ScanFetchOk, ScanProfile,     *)
(* ScanStore, ScanNext, ScanClassify, ScanMark, ScanDraft, ScanNotify of   *)
(* Spec), and after a message event has then stored a draft for Slack      *)
(* message 1 (MsgStart, MsgClassify, MsgMark, MsgPost, MsgCreate).         *)
(***************************************************************************)
AfterEmailDraft ==
    /\ drafts = update_slack_notification(create(<<>>, EMAIL, EmailKey(1), DraftText), 1)
    /\ processed = mark_processed({}, EmailKey(1), EMAIL, DRAFT_RESPONSE, 1)
    /\ cursor = 1
    /\ feedback = {}
    /\ clock = 2
    /\ arrived = 1
    /\ archived = {}
    /\ sends = <<>>
    /\ scan = idleScan
    /\ thr = [t \in Threads |-> idleThread]
    /\ ev = Event("send_email_draft_notification", Null, 1, TRUE)
    /\ fetched = {1}
    /\ classified = [k \in MsgKeys |-> IF k = EmailKey(1) THEN 1 ELSE 0]
    /\ posted = {<<"draft", 1>>}
    /\ log = {}
    /\ withCursor = {}

AfterSlackDraft ==
    /\ drafts = create(update_slack_notification(
                           create(<<>>, EMAIL, EmailKey(1), DraftText), 1),
                       SLACK, SlackKey(1), DraftText)
    /\ processed = mark_processed(
                       mark_processed({}, EmailKey(1), EMAIL, DRAFT_RESPONSE, 1),
                       SlackKey(1), SLACK, slack_json(TRUE), 2)
    /\ cursor = 1
    /\ feedback = {}
    /\ clock = 3
    /\ arrived = 1
    /\ archived = {}
    /\ sends = <<>>
    /\ scan = idleScan
    /\ thr = [t \in Threads |-> idleThread]
    /\ ev = Event("create", 1, 2, TRUE)
    /\ fetched = {1}
    /\ classified = [k \in MsgKeys |-> IF k \in {EmailKey(1), SlackKey(1)} THEN 1 ELSE 0]
    /\ posted = {<<"draft", 1>>, <<"ephemeral", SlackKey(1)>>}
    /\ log = {}
    /\ withCursor = {}

InitActions ==
    /\ AfterEmailDraft \/ AfterSlackDraft
    /\ started = 0
    /\ scans = 0
    /\ restarts = 0

NextActions == Actions

SpecActions == InitActions /\ [][NextActions]_vars

(***************************************************************************)
(* The two intake paths together, the poll driver and the message events,  *)
(* from the state in which a first scan cycle has found the inbox empty    *)
(* and stored the cursor, and the mail has then arrived (the steps         *)
(* ScanStart, ScanFetchOk, ScanProfile, ScanStore and Deliver of Spec).    *)
(***************************************************************************)
AfterDelivery ==
    /\ drafts = <<>>
    /\ processed = {}
    /\ cursor = get_history_id(0)
    /\ feedback = {}
    /\ clock = 1
    /\ arrived = MaxEmails
    /\ archived = {}
    /\ sends = <<>>
    /\ scan = idleScan
    /\ thr = [t \in Threads |-> idleThread]
    /\ ev = Event("deliver", Null, MaxEmails, TRUE)
    /\ fetched = {}
    /\ classified = [k \in MsgKeys |-> 0]
    /\ posted = {}
    /\ log = {}
    /\ withCursor = EmailIds
    /\ started = 0
    /\ scans = 1
    /\ restarts = 0

NextIntake == Scanner \/ Chat

SpecIntake == AfterDelivery /\ [][NextIntake]_vars

(***************************************************************************)
(* The processed_messages table alone: mark_processed called with any      *)
(* message id, source and classification snapshot, on the empty database.  *)
(***************************************************************************)
Snapshots == {FYI_ONLY, SKIP}

StoreMark(message_id, source, classification_json) ==
    /\ clock <= MaxMarks
    /\ processed' = mark_processed(processed, message_id, source,
                                   classification_json, clock)
    /\ clock' = clock + 1
    /\ ev' = Event("mark_processed", Null, <<message_id, source>>, TRUE)
    /\ UNCHANGED <<drafts, cursor, feedback, arrived, archived, sends, scan, thr,
                   fetched, classified, posted, log, withCursor, started, scans,
                   restarts>>

NextStore ==
    \E message_id \in MsgKeys : \E source \in DraftSource :
        \E classification_json \in Snapshots :
            StoreMark(message_id, source, classification_json)

SpecStore == Init /\ [][NextStore]_vars

(***************************************************************************)
(* Properties.                                                             *)
(***************************************************************************)
Terminal == {REJECTED, SENT, SKIPPED, EXPIRED}

\* the status of a row with its terminal timestamps
StatusFields(row) == <<row.status, row.approved_at, row.rejected_at, row.sent_at>>

\* the text a draft stands for: the edit when there is one, else the draft
Expected(row) == IF row.edited_text # None THEN row.edited_text ELSE row.draft_text

\* the drafts stored for a message
DraftsFor(key) == {d \in DOMAIN drafts : drafts[d].original_message_id = key}

\* C1: a draft leaves pending_review at most once: every step that changes
\* a draft's status or terminal timestamps finds the draft in pending_review,
\* so an action that comes second changes nothing.
C1_OnlyPendingDraftsChange ==
    [][\A d \in DOMAIN drafts :
          StatusFields(drafts'[d]) # StatusFields(drafts[d])
              => drafts[d].status = PENDING_REVIEW]_vars

\* C2: rejected, sent, skipped and expired are terminal: no step changes the
\* status of a draft that has one of them.
C2_TerminalStatusStays ==
    [][\A d \in DOMAIN drafts :
          drafts[d].status \in Terminal
              => drafts'[d].status = drafts[d].status]_vars

\* C3: an approve action that finds the draft already sent makes no
\* send_reply call: no reply is sent for a draft that was read as sent.
C3_NoSendForSentDraft ==
    \A i \in DOMAIN sends : sends[i].read.status # SENT

\* C4: when send_reply fails in an approve action, the step changes no draft
\* row (status and timestamps stay), the failure is logged and nothing is
\* raised, the handler is over, and the draft is still there for another
\* approve action to send.
C4_SendFailureKeepsDraft ==
    [][\A t \in Threads :
          (ev'.op = "send_reply" /\ ~ev'.ok /\ ev'.who = t)
              => /\ drafts' = drafts
                 /\ thr'[t] = idleThread
                 /\ Logged("send_reply", DraftKey(thr[t].draft_id)) \in log'
                 /\ \A e \in log' \ log : e.kind = "logged"
                 /\ get(drafts', thr[t].draft_id).source = EMAIL]_vars

\* C4 happens: a send has just failed for a draft in pending_review, which
\* is still in pending_review with no sent_at
C4_Witness ==
    /\ ev.op = "send_reply" /\ ~ev.ok
    /\ drafts[ev.target].status = PENDING_REVIEW
    /\ drafts[ev.target].sent_at = Null
    /\ Logged("send_reply", DraftKey(ev.target)) \in log

\* C5: an approve action on a pending_review email draft whose send_reply
\* returned ends with the draft sent, sent_at set and the original archived.
C5_ApproveWithSendEndsSent ==
    [][\A t \in Threads :
          (/\ thr[t].handler = "approve"
           /\ thr[t].draft.source = EMAIL
           /\ thr[t].draft.status = PENDING_REVIEW
           /\ thr[t].pc \in {"a_archive", "a_update", "refresh"}
           /\ thr'[t].pc = "idle")
              => /\ drafts'[thr[t].draft_id].status = SENT
                 /\ drafts'[thr[t].draft_id].sent_at # Null
                 /\ thr[t].draft.original_message_id[2] \in archived']_vars

\* C6: get_final_text of every stored draft, in every status, is its
\* edited_text when that is set and its draft_text otherwise; the text an
\* approve action computes and the body it passes to send_reply are that
\* value for the row the action read, and the row it read is the stored one,
\* so an approve after an edit-submit sends the edited text.
C6_State ==
    /\ \A d \in DOMAIN drafts : get_final_text(drafts[d]) = Expected(drafts[d])
    /\ \A t \in Threads :
          thr[t].handler = "approve" => thr[t].final_text = Expected(thr[t].draft)
    /\ \A i \in DOMAIN sends : sends[i].body = Expected(sends[i].read)

C6_Step ==
    \A t \in Threads :
        (ev'.op = "approve_get" /\ ev'.ok /\ ev'.who = t)
            => thr'[t].final_text = Expected(drafts[ev'.target])

C6_FinalTextIsSent == []C6_State /\ [][C6_Step]_vars

\* C6 happens: a reply was sent for a draft that had been edited, and its
\* body is the edit, not the generated text
C6_Witness ==
    \E i \in DOMAIN sends :
        /\ sends[i].read.edited_text = "edit"
        /\ sends[i].read.draft_text = DraftText
        /\ sends[i].body = "edit"

\* C7: edited_text changes only while the draft is in pending_review: no
\* step changes the edited_text of a sent, rejected, skipped or expired
\* draft.
C7_EditOnlyWhilePending ==
    [][\A d \in DOMAIN drafts :
          drafts[d].status \in Terminal
              => drafts'[d].edited_text = drafts[d].edited_text]_vars

\* C8: a reject or skip action on a draft that is not in pending_review
\* leaves the draft's row, status and timestamps included, as it was.
C8_RejectSkipOnlyFromPending ==
    [][\A d \in DOMAIN drafts :
          (/\ ev'.op \in {"reject", "skip"}
           /\ ev'.target = d
           /\ drafts[d].status # PENDING_REVIEW)
              => drafts'[d] = drafts[d]]_vars

\* C9: every message is classified at most once and has at most one draft.
C9_ClassifiedAndDraftedOnce ==
    \A key \in MsgKeys :
        /\ classified[key] <= 1
        /\ Cardinality(DraftsFor(key)) <= 1

\* C10: the cursor skips no message: when no cycle is running, every message
\* that was delivered while a cursor was stored and that the stored cursor
\* has passed has been returned by a fetch.
C10_CursorSkipsNoMessage ==
    scan.pc = "idle"
        => \A k \in withCursor : k <= cursor => k \in fetched

\* the processed_messages rows of a (message id, source) pair
RowsFor(message_id, source) ==
    {r \in processed : r.message_id = message_id /\ r.source = source}

\* C11: mark_processed is idempotent: there is never more than one record
\* for a (message_id, source) pair, and a call for a pair that has a record
\* raises nothing and leaves the table, so the first call's snapshot and
\* timestamp, as it was.
C11_State ==
    \A r1 \in processed : \A r2 \in processed :
        (r1.message_id = r2.message_id /\ r1.source = r2.source) => r1 = r2

C11_Step ==
    (ev'.op = "mark_processed" /\ RowsFor(ev'.target[1], ev'.target[2]) # {})
        => processed' = processed /\ log' = log

C12_MarkedIsProcessed ==
    [][ev'.op = "mark_processed"
          => is_processed(processed', ev'.target[1], ev'.target[2])]_vars

\* C13: for every draft the terminal timestamps match the status: a
\* timestamp is set if and only if the draft's status is the one it belongs
\* to (so at most one of them is set).
C13_TimestampsMatchStatus ==
    \A d \in DOMAIN drafts :
        /\ drafts[d].approved_at # Null <=> drafts[d].status = APPROVED
        /\ drafts[d].rejected_at # Null <=> drafts[d].status = REJECTED
        /\ drafts[d].sent_at # Null <=> drafts[d].status = SENT

\* C14: a message whose classification could not be parsed is routed to the
\* human: once its handler is over (it was marked processed, nothing raised,
\* no restart), a notification for it has been posted, on the chat path and
\* on the mail path.
C14_UnparseableIsRoutedToHuman ==
    /\ \A k \in SlackTs :
          (/\ Logged("parse", SlackKey(k)) \in log
           /\ RowsFor(SlackKey(k), SLACK) # {}
           /\ \A t \in Threads : thr[t].ts # k
           /\ Raised("_handle_message_event", SlackKey(k)) \notin log
           /\ restarts = 0)
              => <<"ephemeral", SlackKey(k)>> \in posted
    /\ \A e \in EmailIds :
          (/\ Logged("parse", EmailKey(e)) \in log
           /\ RowsFor(EmailKey(e), EMAIL) # {}
           /\ scan.email # e
           /\ Logged("_process_email", EmailKey(e)) \notin log
           /\ restarts = 0)
              => <<"fyi", EmailKey(e)>> \in posted

\* C15: in a scan cycle an exception raised while one message is handled (in
\* the dedup check, classification, marking, drafting, storing or notifying)
\* leaves the cycle in its loop with the remaining messages of the batch.
C15_FailureKeepsBatchGoing ==
    [][(/\ ev'.op \in {"loop", "classify", "mark", "draft", "notify", "fyi"}
        /\ ~ev'.ok
        /\ scan.pc = ev'.op)
          => IF scan.pc = "loop"
             THEN Cardinality(scan.emails) >= 2 => scan'.pc = "loop"
             ELSE scan.emails # {}
                      => scan'.pc = "loop" /\ scan'.emails = scan.emails]_vars

\* C16: a cycle that completed its fetch reads the latest history token and
\* stores it as the cursor, whether or not the fetch returned messages, so a
\* cycle that is past the store has its token as the cursor; a cycle starts
\* by reading the stored cursor.
C16_State ==
    scan.pc \in {"loop", "classify", "mark", "draft", "notify", "fyi", "auto_archive"}
        => cursor = scan.new_history_id /\ cursor # Null

C16_Step ==
    /\ ev'.op = "get_history_id"
          => scan'.pc = "store" /\ scan'.new_history_id = get_history_id(arrived)
    /\ ev'.op = "_store_history_id"
          => cursor' = scan.new_history_id /\ cursor' # Null
    /\ ev'.op = "_get_stored_history_id" => scan'.history_id = cursor

C16_CursorStoredEveryCycle == []C16_State /\ [][C16_Step]_vars

\* C16 happens: a cycle whose fetch returned nothing has just stored the
\* token, and it is the mailbox's latest
C16_Witness ==
    /\ ev.op = "_store_history_id"
    /\ scan.pc = "idle"
    /\ cursor = ev.target
    /\ cursor = get_history_id(arrived)
    /\ arrived > 0

\* C17: when the mailbox rejects the stored cursor as expired, the cycle
\* does not fail: the step logs the expiry only and goes on with the unread
\* messages; in that cycle a message that has a processed record is skipped
\* without being classified, every message that is classified has passed
\* the check, and the cursor is the refreshed one once the loop runs.
C17_State ==
    (/\ scan.fallback
     /\ scan.pc \in {"loop", "classify", "mark", "draft", "notify", "fyi", "auto_archive"})
        => cursor = scan.new_history_id /\ cursor # Null

C17_Step ==
    /\ (\E e \in log' \ log : e.op = "history_expired")
          => /\ scan'.pc = "profile"
             /\ scan'.emails = get_unread_messages(arrived, archived)
             /\ \A e \in log' \ log : e.op = "history_expired"
    /\ (scan.fallback /\ ev'.op = "is_processed" /\ RowsFor(ev'.target, EMAIL) # {})
          => /\ classified' = classified
             /\ scan'.pc \in {"loop", "idle"}
    /\ (scan.fallback /\ classified' # classified)
          => RowsFor(EmailKey(scan.email), EMAIL) = {} /\ scan.pc = "classify"

C17_ExpiredCursorFallsBack == []C17_State /\ [][C17_Step]_vars

\* C17 happens: in a cycle that fell back to the unread scan, a message
\* classified by an earlier cycle was returned again and has just been
\* skipped, and the cursor is the refreshed one
C17_Witness ==
    /\ scan.fallback
    /\ ev.op = "is_processed" /\ ev.ok
    /\ classified[ev.target] = 1
    /\ scan.pc = "loop"
    /\ cursor = scan.new_history_id

\* the mail messages whose processed record holds the action skip
SkippedKeys ==
    {r.message_id : r \in {x \in processed : x.source = EMAIL
                                             /\ x.classification_json = SKIP}}

\* C18: a message classified with action skip is marked processed by the
\* step that follows, which creates no draft and posts nothing; it never has
\* a draft, and no later step classifies it again.
C18_State == \A key \in SkippedKeys : DraftsFor(key) = {}

C18_Step ==
    /\ (scan.pc = "mark" /\ scan.action = SKIP /\ ev'.op = "mark_processed")
          => /\ EmailKey(scan.email) \in SkippedKeys'
             /\ drafts' = drafts
             /\ posted' = posted
    /\ \A key \in SkippedKeys : classified'[key] = classified[key]

C18_SkipIsFinal == []C18_State /\ [][C18_Step]_vars

\* C18 happens: a later cycle's fetch returned a message marked with action
\* skip, and the dedup check has just skipped it
C18_Witness ==
    /\ ev.op = "is_processed" /\ ev.ok
    /\ ev.target \in SkippedKeys
    /\ classified[ev.target] = 1
    /\ scans >= 2

\* C19: create stores the new draft in pending_review under an id that no
\* existing draft has, with edited_text and the terminal timestamps unset,
\* and leaves the existing drafts as they were.
C19_CreateStoresFreshPendingDraft ==
    [][ev'.op = "create"
          => /\ ev'.target \notin DOMAIN drafts
             /\ DOMAIN drafts' = DOMAIN drafts \cup {ev'.target}
             /\ \A d \in DOMAIN drafts : drafts'[d] = drafts[d]
             /\ drafts'[ev'.target].id = ev'.target
             /\ drafts'[ev'.target].status = PENDING_REVIEW
             /\ drafts'[ev'.target].edited_text = None
             /\ drafts'[ev'.target].approved_at = Null
             /\ drafts'[ev'.target].rejected_at = Null
             /\ drafts'[ev'.target].sent_at = Null]_vars

\* C19 happens: a second draft has just been created beside an existing one
C19_Witness ==
    /\ ev.op = "create"
    /\ ev.target = 2
    /\ DOMAIN drafts = {1, 2}
    /\ drafts[1].notified
    /\ drafts[2].status = PENDING_REVIEW

\* the status an action handler writes
NewStatus(handler) ==
    IF handler = "approve" THEN SENT
    ELSE IF handler = "reject" THEN REJECTED ELSE SKIPPED

\* C20: approve, reject and skip have written the new status when they come
\* to update the notification; the update changes no draft, and when the
\* upstream rejects it the failure is logged, nothing is raised, and the
\* handler is over.
C20_NotificationFailureKeepsStatus ==
    [][\A t \in Threads :
          /\ (/\ thr'[t].pc = "refresh" /\ thr[t].pc # "refresh"
              /\ thr'[t].handler \in {"approve", "reject", "skip"}
              /\ thr'[t].draft_id \in DOMAIN drafts)
                => drafts'[thr'[t].draft_id].status = NewStatus(thr'[t].handler)
          /\ (ev'.op = "update_notification" /\ ev'.who = t /\ thr[t].pc = "refresh")
                => /\ drafts' = drafts
                   /\ thr'[t] = idleThread
                   /\ \A e \in log' \ log : e.kind = "logged"
                   /\ ~ev'.ok => Logged("chat_update", DraftKey(thr[t].draft_id)) \in log']_vars

\* C20 happens: the update of a rejected draft's notification has just
\* failed, and the draft is rejected
C20_Witness ==
    /\ ev.op = "update_notification" /\ ~ev.ok
    /\ drafts[ev.target].status = REJECTED
    /\ drafts[ev.target].rejected_at # Null
    /\ Logged("chat_update", DraftKey(ev.target)) \in log

\* C21: an action that names a draft id not in the store is a no-op: every
\* step of its handler leaves the drafts, the sent replies and the archive
\* as they were, raises nothing, and the handler never comes to send or to
\* write a status.
C21_UnknownDraftIsNoOp ==
    [][\A t \in Threads :
          (ev'.who = t /\ ev'.target = UnknownId)
              => /\ drafts' = drafts
                 /\ sends' = sends
                 /\ archived' = archived
                 /\ feedback' = feedback
                 /\ \A e \in log' \ log : e.kind = "logged"
                 /\ thr'[t].pc \in {"idle", "refresh"}]_vars

\* C21 happens: a reject action has just named a draft id of no row, and
\* every draft is still in pending_review
C21_Witness ==
    /\ ev.op = "reject"
    /\ ev.target = UnknownId
    /\ \A d \in DOMAIN drafts :
          drafts[d].status = PENDING_REVIEW /\ drafts[d].rejected_at = Null

\* C22: a failure of the cursor read, the fetch, the history id read, the
\* cursor write or the dedup query in a scan cycle is logged and not raised,
\* writes nothing, and ends the cycle with the poll driver as it is before
\* any cycle, so the next tick starts a cycle as usual.
C22_ScanFailureEndsCycleOnly ==
    [][(/\ ev'.op \in {"idle", "fetch", "profile", "store", "loop"}
        /\ ~ev'.ok
        /\ scan.pc = ev'.op)
          => /\ scan' = idleScan
             /\ Logged("scan", <<"scan", scan.pc>>) \in log'
             /\ \A e \in log' \ log : e.kind = "logged"
             /\ drafts' = drafts
             /\ processed' = processed
             /\ cursor' = cursor]_vars

\* C22 happens: after a cycle that failed, a later cycle has fetched and has
\* just stored the cursor
C22_Witness ==
    /\ \E e \in log : e.kind = "logged" /\ e.op = "scan"
    /\ ev.op = "_store_history_id"
    /\ scans >= 2
    /\ cursor = ev.target

\* C23: on both paths a handler comes to classify only by an is_processed
\* check that found no record, a classification that returns is followed by
\* the mark_processed insert, and the insert comes before every side effect:
\* a handler that is at a draft, notification or archive step, and every
\* draft, notification and auto-archive that exists, has the processed
\* record of its message.
C23_State ==
    /\ scan.pc \in {"draft", "notify", "fyi", "auto_archive"}
          => RowsFor(EmailKey(scan.email), EMAIL) # {}
    /\ \A t \in Threads :
          thr[t].pc \in {"m_post", "m_create"}
              => RowsFor(SlackKey(thr[t].ts), SLACK) # {}
    /\ \A d \in DOMAIN drafts :
          \E r \in processed : r.message_id = drafts[d].original_message_id
    /\ \A p \in posted :
          p[1] \in {"fyi", "ephemeral"} => \E r \in processed : r.message_id = p[2]
    /\ \A e \in archived : RowsFor(EmailKey(e), EMAIL) # {}

C23_Step ==
    /\ (scan'.pc = "classify" /\ scan.pc # "classify")
          => /\ ev'.op = "is_processed" /\ ~ev'.ok
             /\ ev'.target = EmailKey(scan'.email)
             /\ RowsFor(EmailKey(scan'.email), EMAIL) = {}
    /\ \A t \in Threads :
          (thr'[t].pc = "m_classify" /\ thr[t].pc # "m_classify")
              => /\ ev'.op = "is_processed" /\ ~ev'.ok /\ ev'.who = t
                 /\ RowsFor(SlackKey(thr'[t].ts), SLACK) = {}
    /\ \A k \in MsgKeys :
          classified'[k] > classified[k]
              => \/ scan.pc = "classify" /\ EmailKey(scan.email) = k
                                        /\ scan'.pc = "mark"
                 \/ \E t \in Threads :
                        /\ thr[t].pc = "m_classify" /\ SlackKey(thr[t].ts) = k
                        /\ thr'[t].pc = "m_mark"
    /\ (scan.pc = "mark" /\ scan'.pc # "mark" /\ ev'.ok)
          => /\ ev'.op = "mark_processed"
             /\ RowsFor(EmailKey(scan.email), EMAIL) \subseteq processed'
             /\ \E r \in processed' : r.message_id = EmailKey(scan.email)
    /\ \A t \in Threads :
          (thr[t].pc = "m_mark" /\ thr'[t].pc # "m_mark")
              => /\ ev'.op = "mark_processed" /\ ev'.who = t
                 /\ \E r \in processed' : r.message_id = SlackKey(thr[t].ts)

C23_CheckClassifyMarkOrder == []C23_State /\ [][C23_Step]_vars

\* C23 happens: a mail message and a chat message have both been checked,
\* classified once, marked and drafted
C23_Witness ==
    \E d1 \in DOMAIN drafts : \E d2 \in DOMAIN drafts :
        /\ drafts[d1].source = EMAIL /\ drafts[d2].source = SLACK
        /\ classified[drafts[d1].original_message_id] = 1
        /\ classified[drafts[d2].original_message_id] = 1
        /\ RowsFor(drafts[d1].original_message_id, EMAIL) # {}
        /\ RowsFor(drafts[d2].original_message_id, SLACK) # {}

\* the fields of a draft that are captured at creation
Immutable(row) == <<row.id, row.source, row.original_message_id, row.draft_text>>

\* C24: no step changes the id, source, origin or draft_text of a draft that
\* exists, and no draft is removed.
C24_CreationFieldsAreImmutable ==
    [][\A d \in DOMAIN drafts :
          /\ d \in DOMAIN drafts'
          /\ Immutable(drafts'[d]) = Immutable(drafts[d])]_vars

\* C24 happens: a draft that was announced, edited and sent still has the
\* generated text and its origin
C24_Witness ==
    \E d \in DOMAIN drafts :
        /\ drafts[d].status = SENT
        /\ drafts[d].edited_text = "edit"
        /\ drafts[d].notified
        /\ drafts[d].draft_text = DraftText
        /\ drafts[d].original_message_id = EmailKey(1)

\* C25: a draft is stored before it is announced: every draft announcement
\* that was posted, on the mail path and on the chat path, has a stored
\* draft.
C25_StoredBeforeAnnounced ==
    \A p \in posted :
        /\ p[1] = "draft" => p[2] \in DOMAIN drafts
        /\ p[1] = "ephemeral" => DraftsFor(p[2]) # {}

C27_ArchiveFailureStillSent ==
    [][\A t \in Threads :
          (thr[t].pc = "a_archive" /\ ev'.op = "archive" /\ ev'.who = t)
              => thr'[t].pc = "a_update"]_vars

\* C28: the body an approve action passes to send_reply is get_final_text
\* of the draft as it is stored when the reply is sent, so an edit-submit
\* handled at the same time cannot leave a stored text that was not sent.
C28_SentBodyIsStoredText ==
    [][\A t \in Threads :
          (thr[t].pc = "a_send" /\ ev'.op = "send_reply" /\ ev'.ok /\ ev'.who = t)
              => thr[t].final_text = get_final_text(drafts[thr[t].draft_id])]_vars

\* C29: when every cycle so far has run to its end (no restart, no failure
\* that ended a cycle), every message a fetch has returned either has its
\* processed record or is returned by the next fetch from the stored cursor.
C29_FetchedIsMarkedOrRefetched ==
    (/\ scan.pc = "idle" /\ cursor # Null
     /\ restarts = 0
     /\ \A e \in log : e.op # "scan")
        => \A k \in fetched :
              \/ RowsFor(EmailKey(k), EMAIL) # {}
              \/ k \in get_new_messages_since(arrived, archived, cursor)

\* C30: every stored draft has status pending_review, sent, rejected or
\* skipped, and approved_at is never set.
C30_StatusesInUse ==
    \A d \in DOMAIN drafts :
        /\ drafts[d].status \in {PENDING_REVIEW, SENT, REJECTED, SKIPPED}
        /\ drafts[d].approved_at = Null

\* C30 happens: the actions have stored sent for one draft and rejected or
\* skipped for another
C30_Witness ==
    \E d1 \in DOMAIN drafts : \E d2 \in DOMAIN drafts :
        /\ drafts[d1].status = SENT
        /\ drafts[d2].status \in {REJECTED, SKIPPED}

====
